---- MODULE Spec2Model ----
(***************************************************************************)
(* Model of the authentication views of api.ashes.live                     *)
(* (src/api/views/auth.py): log_in, log_out, request_password_reset and    *)
(* reset_password, over the persisted User and UserRevokedToken tables.    *)
(*                                                                         *)
(* Requests are handled by several request workers.  Each handler is       *)
(* split at its blocking calls (the query, each commit, the mail           *)
(* delivery), so that the steps of different requests, a ban and the clock *)
(* interleave the way a READ COMMITTED database allows.                    *)
(*                                                                         *)
(* The collaborators that auth.py imports (token validation, token         *)
(* minting, the password hash, the table schema) are not part of the       *)
(* source at hand and are modelled from the specification text.            *)
(***************************************************************************)
EXTENDS Integers, Sequences, FiniteSets, TLC

\* ------------------------------------------------------------------ bounds
MaxClock  == 1      \* the clock runs over 0..MaxClock
MaxTokens == 2      \* access tokens minted in one behaviour
MaxUuids  == 2      \* reset identifiers generated in one behaviour

\* configured token lifetime, in clock ticks (exp = now + lifetime)
access_token_expiry == 1

\* --------------------------------------------------------------- universes
UserIds   == {1, 2}
Workers   == {1, 2}
NoUser    == 0                      \* query(...).first() returned None
NULL      == 0                      \* reset_uuid IS NULL
Passwords == {"p1", "p2"}

\* emails submitted by clients: the two registered addresses, an upper-case
\* spelling of the first one, and an address prefixed the way
\* test_bad_username prefixes it ("nope_" + email)
EmailInputs == {<<"a">>, <<"A">>, <<"b">>, <<"n", "a">>}

\* outcome of a request: OK (HTTP 200) or the exception that ended it
OK           == "OK"
CREDENTIALS  == "CredentialsException"     \* 401
FORBIDDEN    == "BannedUserException"      \* 403
NOT_FOUND    == "NotFoundException"        \* 404
API_ERROR    == "APIException"             \* generic service error
SERVER_ERROR == "IntegrityError"           \* unhandled database error, 500

VARIABLES
    users,      \* User table: id -> [email, password, is_banned, reset_uuid]
    revoked,    \* UserRevokedToken table: set of rows
    now,        \* wall clock
    issued,     \* access tokens minted so far (held by clients)
    next_jti,   \* next fresh token id (uuid4 in access_token_for_user)
    next_uuid,  \* next fresh reset identifier (uuid.uuid4())
    cred,       \* history: the plaintext password each account was given
                \* (at creation, or by the last commit of a reset_password)
    logged_out, \* history: tokens for which log_out has answered 200
    redeemed,   \* history: per reset identifier, how many reset_password
                \* calls presenting it have committed their write (each of
                \* them goes on to answer 200)
    integrity_errors,
                \* history: token ids whose log_out ended in IntegrityError
    pc,         \* per worker, the handler position
    loc         \* per worker, the handler's local variables

vars == <<users, revoked, now, issued, next_jti, next_uuid, cred, logged_out,
          redeemed, integrity_errors, pc, loc>>

\* ---------------------------------------------------------- pure functions

\* str.lower() on one character
lower_char(c) ==
    IF c = "A" THEN "a" ELSE IF c = "B" THEN "b" ELSE c

\* str.lower(): auth.py lines 52 and 101
lower(s) == [i \in DOMAIN s |-> lower_char(s[i])]

\* one-way password hash (black box with verify)
generate_password_hash(p) == <<"hash", p>>

verify_password(p, h) == h = generate_password_hash(p)

NoToken == [sub |-> NoUser, jti |-> 0, exp |-> 0, sig |-> FALSE]

\* Token Issuer: claims {sub, jti, exp = now + lifetime}, signed
access_token_for_user(u, jti, t) ==
    [sub |-> u, jti |-> jti, exp |-> t + access_token_expiry, sig |-> TRUE]

\* session.query(User).filter(User.email == email).first()
user_by_email(us, email) ==
    IF \E u \in UserIds : us[u].email = email
    THEN CHOOSE u \in UserIds : us[u].email = email
    ELSE NoUser

\* mutant: an identifier older than the stored one still matches
user_by_reset_uuid_older(us, token) ==
    IF \E u \in UserIds : us[u].reset_uuid # NULL /\ token <= us[u].reset_uuid
    THEN CHOOSE u \in UserIds :
            us[u].reset_uuid # NULL /\ token <= us[u].reset_uuid
    ELSE NoUser

\* session.query(User).filter(User.reset_uuid == token).first()
user_by_reset_uuid(us, token) ==
    IF \E u \in UserIds : us[u].reset_uuid = token
    THEN CHOOSE u \in UserIds : us[u].reset_uuid = token
    ELSE NoUser

is_revoked(rev, jti) == \E r \in rev : r.revoked_uuid = jti

\* mutant: the ban is checked before expiry and revocation
login_required_ban_first(tok, t, us, rev) ==
    IF ~tok.sig THEN CREDENTIALS
    ELSE IF tok.sub \notin UserIds THEN CREDENTIALS
    ELSE IF us[tok.sub].is_banned THEN FORBIDDEN
    ELSE IF t >= tok.exp THEN CREDENTIALS
    ELSE IF is_revoked(rev, tok.jti) THEN CREDENTIALS
    ELSE OK

\* mutant: the token is still accepted at its exp instant
login_required_late(tok, t, us, rev) ==
    IF ~tok.sig THEN CREDENTIALS
    ELSE IF t > tok.exp THEN CREDENTIALS
    ELSE IF is_revoked(rev, tok.jti) THEN CREDENTIALS
    ELSE IF tok.sub \notin UserIds THEN CREDENTIALS
    ELSE IF us[tok.sub].is_banned THEN FORBIDDEN
    ELSE OK

\* Token Validator (get_auth_token + login_required): the five checks in
\* order; the status of the first failing check, OK when all pass
login_required(tok, t, us, rev) ==
    IF ~tok.sig THEN CREDENTIALS
    ELSE IF t >= tok.exp THEN CREDENTIALS
    ELSE IF is_revoked(rev, tok.jti) THEN CREDENTIALS
    ELSE IF tok.sub \notin UserIds THEN CREDENTIALS
    ELSE IF us[tok.sub].is_banned THEN FORBIDDEN
    ELSE OK

\* tokens a client can present: every minted token, and each of them with
\* its signature broken
Tampered(tok) == [tok EXCEPT !.sig = FALSE]
Presentable == issued \cup {Tampered(tok) : tok \in issued}

\* reset identifiers a client can present (generated or not)
Uuids == 1..(MaxUuids + 1)

\* -------------------------------------------------------------------- Init
\* two registered users (created as the tests' _create_user_password does:
\* lower-case email, hashed password, not banned, no pending reset)
InitialPassword == [u \in UserIds |-> IF u = 1 THEN "p1" ELSE "p2"]
InitialEmail    == [u \in UserIds |-> IF u = 1 THEN <<"a">> ELSE <<"b">>]

\* a worker that is handling nothing
Idle == [op |-> "none", status |-> "", user |-> NoUser, token |-> NoToken,
         ident |-> NULL, password |-> ""]

Init ==
    /\ users = [u \in UserIds |->
                  [email |-> InitialEmail[u],
                   password |-> generate_password_hash(InitialPassword[u]),
                   is_banned |-> FALSE,
                   reset_uuid |-> NULL]]
    /\ revoked = {}
    /\ now = 0
    /\ issued = {}
    /\ next_jti = 1
    /\ next_uuid = 1
    /\ cred = InitialPassword
    /\ logged_out = {}
    /\ redeemed = [t \in Uuids |-> 0]
    /\ integrity_errors = {}
    /\ pc = [w \in Workers |-> "idle"]
    /\ loc = [w \in Workers |-> Idle]

\* ------------------------------------------------- the handlers' statements
\* log_in, request_password_reset and reset_password are anonymous endpoints
\* (Depends(anonymous_required)): their callers send no bearer token.

\* mutant: the ban is checked before the password
log_in_status_ban_first(us, username, password) ==
    LET email == lower(username)
        user  == user_by_email(us, email)
    IN  IF user = NoUser THEN CREDENTIALS
        ELSE IF us[user].is_banned THEN FORBIDDEN
        ELSE IF ~verify_password(password, us[user].password) THEN CREDENTIALS
        ELSE OK

\* mutant: an unknown email gets an answer of its own
log_in_status_revealing(us, username, password) ==
    LET email == lower(username)
        user  == user_by_email(us, email)
    IN  IF user = NoUser THEN NOT_FOUND
        ELSE IF ~verify_password(password, us[user].password) THEN CREDENTIALS
        ELSE IF us[user].is_banned THEN FORBIDDEN
        ELSE OK

\* mutant: the password is not verified
log_in_status_unverified(us, username, password) ==
    LET email == lower(username)
        user  == user_by_email(us, email)
    IN  IF user = NoUser THEN CREDENTIALS
        ELSE IF us[user].is_banned THEN FORBIDDEN
        ELSE OK

\* POST /token, auth.py lines 52-59: the outcome
log_in_status(us, username, password) ==
    LET email == lower(username)
        user  == user_by_email(us, email)
    IN  IF user = NoUser \/ ~verify_password(password, us[user].password)
        THEN CREDENTIALS
        ELSE IF us[user].is_banned THEN FORBIDDEN
        ELSE OK

\* mutant: the ban is not checked
log_in_response_unbanned(us, username, password, jti, t) ==
    LET user == user_by_email(us, lower(username))
        good == user # NoUser /\ verify_password(password, us[user].password)
    IN  [status |-> IF good THEN OK ELSE CREDENTIALS,
         access_token |-> IF good THEN access_token_for_user(user, jti, t)
                                  ELSE NoToken]

\* POST /token, auth.py lines 42-61: the response (one query, no write)
log_in_response(us, username, password, jti, t) ==
    LET status == log_in_status(us, username, password)
        user   == user_by_email(us, lower(username))
    IN  [status |-> status,
         access_token |-> IF status = OK
                          THEN access_token_for_user(user, jti, t)
                          ELSE NoToken]

\* mutant: the row expires one token lifetime after the revocation
revoked_token_expires_later(jwt_payload, current_user) ==
    [revoked_uuid |-> jwt_payload.jti,
     user_id      |-> current_user,
     expires      |-> now + access_token_expiry]

\* mutant: the user id is stored where the token id belongs
revoked_token_swapped(jwt_payload, current_user) ==
    [revoked_uuid |-> current_user,
     user_id      |-> current_user,
     expires      |-> jwt_payload.exp]

\* the row log_out builds, auth.py lines 75-81
revoked_token(jwt_payload, current_user) ==
    [revoked_uuid |-> jwt_payload.jti,
     user_id      |-> current_user,
     expires      |-> jwt_payload.exp]

\* session.add(row); session.commit() on UserRevokedToken, whose key is the
\* token id: a second row with the same revoked_uuid is refused
insert_revoked_token(rev, row) ==
    IF is_revoked(rev, row.revoked_uuid)
    THEN [ok |-> FALSE, table |-> rev]
    ELSE [ok |-> TRUE,  table |-> rev \cup {row}]

\* POST /reset, auth.py lines 101-106: the checks before anything is written
request_password_reset_check(us, address) ==
    LET email == lower(address)
        user  == user_by_email(us, email)
    IN  IF user = NoUser THEN NOT_FOUND
        ELSE IF us[user].is_banned THEN FORBIDDEN
        ELSE OK

\* mutant: a pending identifier wins over the one being written
request_password_reset_write_first_wins(us, user, uuid) ==
    IF us[user].reset_uuid = NULL
    THEN [us EXCEPT ![user].reset_uuid = uuid]
    ELSE us

\* auth.py lines 107-108: user.reset_uuid = uuid.uuid4(); session.commit()
request_password_reset_write(us, user, uuid) ==
    [us EXCEPT ![user].reset_uuid = uuid]

\* mutant: the identifier is taken back when the mail is not delivered
request_password_reset_send_rollback(us, user, sent) ==
    [status |-> IF sent THEN OK ELSE API_ERROR,
     table  |-> IF sent THEN us ELSE [us EXCEPT ![user].reset_uuid = NULL]]

\* POST /reset, auth.py lines 109-119: sent is what send_message returns;
\* the outcome and the User table afterwards (nothing is written)
request_password_reset_send(us, user, sent) ==
    [status |-> IF sent THEN OK ELSE API_ERROR,
     table  |-> us]

\* mutant: a banned user is refused
reset_password_check_banned(us, token) ==
    LET user == user_by_reset_uuid(us, token)
    IN  IF user = NoUser THEN NOT_FOUND
        ELSE IF us[user].is_banned THEN FORBIDDEN
        ELSE OK

\* POST /reset/{token}, auth.py lines 137-141: the check on the query result
reset_password_check(us, token) ==
    IF user_by_reset_uuid(us, token) = NoUser THEN NOT_FOUND ELSE OK

\* mutant: the commit clears the identifier and keeps the old hash
reset_password_write_clear_only(us, user, password) ==
    [us EXCEPT ![user].reset_uuid = NULL]

\* mutant: the commit carries the new hash only
reset_password_write_hash_only(us, user, password) ==
    [us EXCEPT ![user].password = generate_password_hash(password)]

\* auth.py lines 142-144: both columns are written by one commit
reset_password_write(us, user, password) ==
    [us EXCEPT ![user].password = generate_password_hash(password),
               ![user].reset_uuid = NULL]

\* ------------------------------------------------ request workers, stepwise
\* Each worker runs one handler at a time with its own database session.  A
\* handler's query (with the dependencies that run before its body and the
\* checks on the row it loaded) is one step, each session.commit() is one
\* step, the creation of a token is one step, the mail delivery is one step
\* and the answer to a raised exception is one step; between them the worker
\* holds what it read in loc[w], and other workers, the administrator and
\* the clock take their own steps.

\* the response is sent and the worker's locals are gone
Done(w, r) ==
    /\ pc' = [pc EXCEPT ![w] = "idle"]
    /\ loc' = [loc EXCEPT ![w] = r]

Goto(w, label, r) ==
    /\ pc' = [pc EXCEPT ![w] = label]
    /\ loc' = [loc EXCEPT ![w] = r]

\* workers that stand before the statement with the given label
Pending(label) == Cardinality({w \in Workers : pc[w] = label})

\* workers that are about to create a token
Minting ==
    Pending("log_in_token") + Pending("reset_commit") + Pending("reset_token")

\* a raise statement (auth.py lines 55, 59, 104, 106, 139, or the one of a
\* dependency): the exception is answered, nothing is written
raise_exception(w) ==
    /\ pc[w] = "raise"
    /\ loc[w].status \in {CREDENTIALS, FORBIDDEN, NOT_FOUND}
    /\ Done(w, Idle)
    /\ UNCHANGED <<users, revoked, now, issued, next_jti, next_uuid, cred,
                   logged_out, redeemed, integrity_errors>>

\* POST /token, auth.py lines 52-59: the query and the checks on the row it
\* loaded (is_banned is an attribute of that row, not read again)
log_in_query(w, username, password) ==
    LET status == log_in_status(users, username, password)
        user   == user_by_email(users, lower(username))
    IN  /\ pc[w] = "idle"
        /\ status = OK => next_jti + Minting <= MaxTokens
        /\ IF status # OK
           THEN Goto(w, "raise",
                     [Idle EXCEPT !.op = "log_in", !.status = status])
           ELSE Goto(w, "log_in_token",
                     [Idle EXCEPT !.op = "log_in", !.user = user])
        /\ UNCHANGED <<users, revoked, now, issued, next_jti, next_uuid,
                       cred, logged_out, redeemed, integrity_errors>>

\* POST /token, auth.py lines 60-61: the token is created and returned
log_in(w) ==
    LET access_token == access_token_for_user(loc[w].user, next_jti, now)
    IN  /\ pc[w] = "log_in_token"
        /\ issued' = issued \cup {access_token}
        /\ next_jti' = next_jti + 1
        /\ Done(w, Idle)
        /\ UNCHANGED <<users, revoked, now, next_uuid, cred, logged_out,
                       redeemed, integrity_errors>>

\* an authenticated endpoint (GET /players/me in test_auth.py): the
\* login_required dependency decides the response; nothing is written
authenticated_request(w, tok) ==
    /\ pc[w] = "idle"
    /\ login_required(tok, now, users, revoked) \in {OK, CREDENTIALS, FORBIDDEN}
    /\ UNCHANGED vars

\* DELETE /token, auth.py lines 67-68: the dependencies get_auth_token and
\* login_required
log_out_dependencies(w, tok) ==
    LET auth == login_required(tok, now, users, revoked)
    IN  /\ pc[w] = "idle"
        /\ IF auth # OK
           THEN Goto(w, "raise",
                     [Idle EXCEPT !.op = "log_out", !.status = auth])
           ELSE Goto(w, "log_out_commit",
                     [Idle EXCEPT !.op = "log_out", !.user = tok.sub,
                                  !.token = tok])
        /\ UNCHANGED <<users, revoked, now, issued, next_jti, next_uuid,
                       cred, logged_out, redeemed, integrity_errors>>

\* DELETE /token, auth.py lines 75-84
log_out(w) ==
    LET ins == insert_revoked_token(revoked,
                                    revoked_token(loc[w].token, loc[w].user))
    IN  /\ pc[w] = "log_out_commit"
        /\ revoked' = ins.table
        /\ logged_out' = IF ins.ok THEN logged_out \cup {loc[w].token}
                                   ELSE logged_out
        /\ integrity_errors' = IF ins.ok THEN integrity_errors
                               ELSE integrity_errors \cup {loc[w].token.jti}
        /\ Done(w, Idle)
        /\ UNCHANGED <<users, now, issued, next_jti, next_uuid, cred, redeemed>>

\* mutant: the identifier is written before the ban is checked
request_password_reset_query_writing(w, address) ==
    LET check == request_password_reset_check(users, address)
        user  == user_by_email(users, lower(address))
    IN  /\ pc[w] = "idle"
        /\ check # NOT_FOUND => next_uuid + Pending("request_commit") <= MaxUuids
        /\ IF check # OK
           THEN Goto(w, "raise",
                     [Idle EXCEPT !.op = "request_password_reset",
                                  !.status = check])
           ELSE Goto(w, "request_commit",
                     [Idle EXCEPT !.op = "request_password_reset",
                                  !.user = user])
        /\ users' = IF check = FORBIDDEN
                    THEN request_password_reset_write(users, user, next_uuid)
                    ELSE users
        /\ next_uuid' = IF check = FORBIDDEN THEN next_uuid + 1 ELSE next_uuid
        /\ UNCHANGED <<revoked, now, issued, next_jti, cred, logged_out,
                       redeemed, integrity_errors>>

\* POST /reset, auth.py lines 101-106
request_password_reset_query(w, address) ==
    LET check == request_password_reset_check(users, address)
        user  == user_by_email(users, lower(address))
    IN  /\ pc[w] = "idle"
        /\ check = OK => next_uuid + Pending("request_commit") <= MaxUuids
        /\ IF check # OK
           THEN Goto(w, "raise",
                     [Idle EXCEPT !.op = "request_password_reset",
                                  !.status = check])
           ELSE Goto(w, "request_commit",
                     [Idle EXCEPT !.op = "request_password_reset",
                                  !.user = user])
        /\ UNCHANGED <<users, revoked, now, issued, next_jti, next_uuid,
                       cred, logged_out, redeemed, integrity_errors>>

\* POST /reset, auth.py lines 107-108
request_password_reset_commit(w) ==
    /\ pc[w] = "request_commit"
    /\ users' = request_password_reset_write(users, loc[w].user, next_uuid)
    /\ next_uuid' = next_uuid + 1
    /\ Goto(w, "request_send", [loc[w] EXCEPT !.ident = next_uuid])
    /\ UNCHANGED <<revoked, now, issued, next_jti, cred, logged_out,
                   redeemed, integrity_errors>>

\* POST /reset, auth.py lines 109-119
request_password_reset_deliver(w, sent) ==
    LET r == request_password_reset_send(users, loc[w].user, sent)
    IN  /\ pc[w] = "request_send"
        /\ r.status \in {OK, API_ERROR}
        /\ users' = r.table
        /\ Done(w, Idle)
        /\ UNCHANGED <<revoked, now, issued, next_jti, next_uuid, cred,
                       logged_out, redeemed, integrity_errors>>

\* mutant: a miss clears every pending identifier
reset_password_query_clearing(w, token, password) ==
    LET check == reset_password_check(users, token)
        user  == user_by_reset_uuid(users, token)
    IN  /\ pc[w] = "idle"
        /\ check = OK => next_jti + Minting <= MaxTokens
        /\ IF check # OK
           THEN Goto(w, "raise",
                     [Idle EXCEPT !.op = "reset_password", !.status = check,
                                  !.ident = token])
           ELSE Goto(w, "reset_commit",
                     [Idle EXCEPT !.op = "reset_password", !.user = user,
                                  !.ident = token, !.password = password])
        /\ users' = IF check # OK
                    THEN [u \in UserIds |-> [users[u] EXCEPT !.reset_uuid = NULL]]
                    ELSE users
        /\ UNCHANGED <<revoked, now, issued, next_jti, next_uuid, cred,
                       logged_out, redeemed, integrity_errors>>

\* POST /reset/{token}, auth.py lines 137-141
reset_password_query(w, token, password) ==
    LET check == reset_password_check(users, token)
        user  == user_by_reset_uuid(users, token)
    IN  /\ pc[w] = "idle"
        /\ check = OK => next_jti + Minting <= MaxTokens
        /\ IF check # OK
           THEN Goto(w, "raise",
                     [Idle EXCEPT !.op = "reset_password", !.status = check,
                                  !.ident = token])
           ELSE Goto(w, "reset_commit",
                     [Idle EXCEPT !.op = "reset_password", !.user = user,
                                  !.ident = token, !.password = password])
        /\ UNCHANGED <<users, revoked, now, issued, next_jti, next_uuid,
                       cred, logged_out, redeemed, integrity_errors>>

\* mutant: the commit of a reset also revokes the tokens the user has
reset_password_commit_revoking(w) ==
    /\ pc[w] = "reset_commit"
    /\ users' = reset_password_write(users, loc[w].user, loc[w].password)
    /\ cred' = [cred EXCEPT ![loc[w].user] = loc[w].password]
    /\ redeemed' = [redeemed EXCEPT ![loc[w].ident] = @ + 1]
    /\ revoked' = revoked \cup
                     {revoked_token(tok, loc[w].user) :
                         tok \in {k \in issued : k.sub = loc[w].user}}
    /\ Goto(w, "reset_token", loc[w])
    /\ UNCHANGED <<now, issued, next_jti, next_uuid, logged_out,
                   integrity_errors>>

\* POST /reset/{token}, auth.py lines 142-144: the two assignments and the
\* session.commit(); from here on the account has the new password and the
\* identifier counts as redeemed
reset_password_commit(w) ==
    /\ pc[w] = "reset_commit"
    /\ users' = reset_password_write(users, loc[w].user, loc[w].password)
    /\ cred' = [cred EXCEPT ![loc[w].user] = loc[w].password]
    /\ redeemed' = [redeemed EXCEPT ![loc[w].ident] = @ + 1]
    /\ Goto(w, "reset_token", loc[w])
    /\ UNCHANGED <<revoked, now, issued, next_jti, next_uuid, logged_out,
                   integrity_errors>>

\* POST /reset/{token}, auth.py lines 145-146: the token is created and
\* returned
reset_password(w) ==
    LET access_token == access_token_for_user(loc[w].user, next_jti, now)
    IN  /\ pc[w] = "reset_token"
        /\ issued' = issued \cup {access_token}
        /\ next_jti' = next_jti + 1
        /\ Done(w, Idle)
        /\ UNCHANGED <<users, revoked, now, next_uuid, cred, logged_out,
                       redeemed, integrity_errors>>

\* an administrator bans a user (user.is_banned = True; session.commit())
ban(u) ==
    /\ ~users[u].is_banned
    /\ users' = [users EXCEPT ![u].is_banned = TRUE]
    /\ UNCHANGED <<revoked, now, issued, next_jti, next_uuid, cred,
                   logged_out, redeemed, integrity_errors, pc, loc>>

\* the clock advances
Tick ==
    /\ now < MaxClock
    /\ now' = now + 1
    /\ UNCHANGED <<users, revoked, issued, next_jti, next_uuid, cred,
                   logged_out, redeemed, integrity_errors, pc, loc>>

Next ==
    \/ \E w \in Workers, e \in EmailInputs, p \in Passwords :
          log_in_query(w, e, p)
    \/ \E w \in Workers : log_in(w)
    \/ \E w \in Workers, tok \in Presentable : authenticated_request(w, tok)
    \/ \E w \in Workers, tok \in Presentable : log_out_dependencies(w, tok)
    \/ \E w \in Workers : log_out(w)
    \/ \E w \in Workers, e \in EmailInputs : request_password_reset_query(w, e)
    \/ \E w \in Workers : request_password_reset_commit(w)
    \/ \E w \in Workers, sent \in BOOLEAN : request_password_reset_deliver(w, sent)
    \/ \E w \in Workers, t \in Uuids, p \in Passwords :
          reset_password_query(w, t, p)
    \/ \E w \in Workers : reset_password_commit(w)
    \/ \E w \in Workers : reset_password(w)
    \/ \E w \in Workers : raise_exception(w)
    \/ \E u \in UserIds : ban(u)
    \/ Tick

Spec == Init /\ [][Next]_vars

\* ------------------------------------------------------------------ claims

\* the account, if any, that a submitted address matches once lower-cased
Matches(e, u) == users[u].email = lower(e)
NoAccount(e)  == \A u \in UserIds : ~Matches(e, u)

\* a minted token that is unexpired and was never logged out, at the clock
Live(tok) == tok \in issued /\ now < tok.exp /\ tok \notin logged_out

\* workers whose handler stands before the statement with the given label
At(label) == {w \in Workers : pc[w] = label}

\* C1: for every account, log_in with the account's email and the password it
\* was given succeeds with a token for that account (the account not being
\* banned, which C3 covers); with that email and any other password, or with
\* that password and an address that matches no account, it fails with
\* CredentialsException.
C1_LogInExactPair ==
    \A u \in UserIds :
        /\ ~users[u].is_banned =>
             LET r == log_in_response(users, users[u].email, cred[u],
                                      next_jti, now)
             IN  /\ r.status = OK
                 /\ r.access_token.sub = u
                 /\ r.access_token.sig
        /\ \A p \in Passwords \ {cred[u]} :
             log_in_response(users, users[u].email, p, next_jti, now)
                = [status |-> CREDENTIALS, access_token |-> NoToken]
        /\ \A e \in EmailInputs :
             NoAccount(e) =>
                log_in_response(users, e, cred[u], next_jti, now)
                   = [status |-> CREDENTIALS, access_token |-> NoToken]

\* C1 witness: a token was minted by log_in (no reset identifier was ever
\* generated, so reset_password cannot have minted it) for an account that
\* still has the password it was created with.
C1_Witness ==
    \E tok \in issued :
        /\ next_uuid = 1
        /\ cred[tok.sub] = InitialPassword[tok.sub]
        /\ ~users[tok.sub].is_banned

\* C2: once log_out has answered 200 for a token, validation of that token
\* fails with CredentialsException in every later state, whatever the clock
\* and whatever was done since.
C2_RevokedStaysInvalid ==
    \A tok \in logged_out :
        login_required(tok, now, users, revoked) = CREDENTIALS

\* C2 witness: a logged-out token that has not expired, after further
\* operations (another token minted, a reset identifier generated).
C2_Witness ==
    \E tok \in logged_out :
        /\ now < tok.exp
        /\ next_jti > tok.jti + 1
        /\ next_uuid > 1

\* C3: a banned user's log_in with the right password fails with
\* BannedUserException, and every unexpired, unrevoked token of a banned user
\* fails validation with BannedUserException: the ban is read from the user
\* row at validation.
C3_BannedRejected ==
    /\ \A u \in UserIds :
          users[u].is_banned =>
             log_in_response(users, users[u].email, cred[u], next_jti, now)
                = [status |-> FORBIDDEN, access_token |-> NoToken]
    /\ \A tok \in issued :
          (Live(tok) /\ users[tok.sub].is_banned) =>
             login_required(tok, now, users, revoked) = FORBIDDEN

\* C3 witness: a banned user holding a live token.
C3_Witness ==
    \E tok \in issued : Live(tok) /\ users[tok.sub].is_banned

\* the token that the step of worker w creates
Minted(w) == access_token_for_user(loc[w].user, next_jti, now)

\* C4 as claimed: when reset_password commits for the user it found by the
\* identifier, then in the table it leaves log_in with the old password
\* fails with 401, log_in with the new one succeeds, the identifier is null
\* and a second reset_password with the identifier is NotFound; and the
\* token it then creates and returns validates.
C4_Original ==
    /\ \A w \in At("reset_commit") :
          LET u     == loc[w].user
              p     == loc[w].password
              after == reset_password_write(users, u, p)
          IN  /\ log_in_status(after, users[u].email, cred[u]) = CREDENTIALS
              /\ log_in_status(after, users[u].email, p) = OK
              /\ after[u].reset_uuid = NULL
              /\ reset_password_check(after, loc[w].ident) = NOT_FOUND
    /\ \A w \in At("reset_token") :
          login_required(Minted(w), now, users, revoked) = OK

\* C4 amended: when reset_password commits for the user it found by the
\* identifier, then in the table it leaves log_in with the old password
\* fails with 401 when the new password differs from it, log_in with the
\* new password succeeds when the user is not banned, the identifier is
\* null and a second reset_password with the identifier is NotFound; and
\* the token it then creates and returns is one of that user and validates
\* when the user is not banned.
C4_ResetExchanges ==
    /\ \A w \in At("reset_commit") :
          LET u     == loc[w].user
              p     == loc[w].password
              after == reset_password_write(users, u, p)
          IN  /\ p # cred[u] =>
                   log_in_status(after, users[u].email, cred[u]) = CREDENTIALS
              /\ ~users[u].is_banned =>
                   log_in_status(after, users[u].email, p) = OK
              /\ after[u].reset_uuid = NULL
              /\ reset_password_check(after, loc[w].ident) = NOT_FOUND
    /\ \A w \in At("reset_token") :
          /\ Minted(w).sub = loc[w].user
          /\ ~users[loc[w].user].is_banned =>
                login_required(Minted(w), now, users, revoked) = OK

\* C4 witness: a reset_password has succeeded with a new password: the
\* password differs from the one at creation, no identifier is pending and
\* the token it returned is live.
C4_Witness ==
    \E u \in UserIds, tok \in issued :
        /\ cred[u] # InitialPassword[u]
        /\ users[u].password = generate_password_hash(cred[u])
        /\ users[u].reset_uuid = NULL
        /\ tok.sub = u /\ Live(tok)
        /\ ~users[u].is_banned

\* C5: when request_password_reset commits for a user who already holds
\* identifier r1 (an earlier request's), the user then holds a different
\* identifier r2: a reset_password with r1 finds no user (NotFound) and a
\* reset_password with r2 finds that user and stores the new hash.
C5_LatestIdentifierOnly ==
    \A w \in At("request_commit") :
        LET u     == loc[w].user
            r1    == users[u].reset_uuid
            after == request_password_reset_write(users, u, next_uuid)
            r2    == after[u].reset_uuid
        IN  r1 # NULL =>
              /\ r2 # NULL /\ r2 # r1
              /\ reset_password_check(after, r1) = NOT_FOUND
              /\ reset_password_check(after, r2) = OK
              /\ user_by_reset_uuid(after, r2) = u
              /\ \A p \in Passwords :
                    reset_password_write(after, u, p)[u].password
                       = generate_password_hash(p)

\* C5 witness: two identifiers were generated, both for user 1 (no token was
\* minted, so none was consumed, and user 2 holds none), the second is the
\* pending one and no request is being handled.
C5_Witness ==
    /\ next_uuid = 3
    /\ next_jti = 1
    /\ users[1].reset_uuid = 2
    /\ users[2].reset_uuid = NULL
    /\ At("idle") = Workers

\* C6: request_password_reset answers NotFoundException when the address
\* matches no account and BannedUserException when the account it matches is
\* banned, and goes on to the write only for a known, non-banned address;
\* its commit leaves a non-null identifier on that user and touches nothing
\* else; with the mail delivered it answers 200.  A request that raises one
\* of the two exceptions changes no user record, neither in the step that
\* raises nor in the step that answers; a request reaches its commit only
\* for an address whose account it read as not banned.
C6_ResetRequestOutcomes ==
    /\ [](/\ \A e \in EmailInputs :
               LET check == request_password_reset_check(users, e)
               IN  /\ NoAccount(e) => check = NOT_FOUND
                   /\ \A u \in UserIds :
                         Matches(e, u) =>
                            check = IF users[u].is_banned THEN FORBIDDEN
                                                          ELSE OK
          /\ \A w \in At("request_commit") :
               LET u     == loc[w].user
                   after == request_password_reset_write(users, u, next_uuid)
               IN  /\ after[u].reset_uuid # NULL
                   /\ after = [users EXCEPT
                                 ![u].reset_uuid = after[u].reset_uuid]
          /\ \A w \in At("request_send") :
               request_password_reset_send(users, loc[w].user, TRUE)
                  = [status |-> OK, table |-> users])
    /\ [][\A w \in Workers :
            /\ (/\ pc[w] = "idle" /\ pc'[w] = "raise"
                /\ loc'[w].op = "request_password_reset") =>
                  /\ loc'[w].status \in {NOT_FOUND, FORBIDDEN}
                  /\ \E e \in EmailInputs :
                        request_password_reset_check(users, e) = loc'[w].status
                  /\ users' = users
            /\ (/\ pc[w] = "raise" /\ pc'[w] = "idle"
                /\ loc[w].op = "request_password_reset") =>
                  users' = users
            /\ (pc[w] = "idle" /\ pc'[w] = "request_commit") =>
                  /\ \E e \in EmailInputs :
                        /\ Matches(e, loc'[w].user)
                        /\ request_password_reset_check(users, e) = OK
                  /\ ~users[loc'[w].user].is_banned
                  /\ users' = users
            /\ (pc[w] = "request_commit" /\ pc'[w] = "request_send") =>
                  /\ users'[loc[w].user].reset_uuid # NULL
                  /\ users' = [users EXCEPT ![loc[w].user].reset_uuid
                                              = users'[loc[w].user].reset_uuid]
            /\ (pc[w] = "request_send" /\ pc'[w] = "idle") =>
                  users' = users]_vars

\* C6 witness: a reset request has left its identifier pending on one
\* account while the other account is banned and a request for the banned
\* account has raised BannedUserException and is about to answer.
C6_Witness ==
    \E u \in UserIds, v \in UserIds, w \in At("raise") :
        /\ users[u].reset_uuid = next_uuid - 1
        /\ users[v].is_banned /\ ~users[u].is_banned
        /\ loc[w].op = "request_password_reset"
        /\ loc[w].status = FORBIDDEN

\* C7: a minted token that is not revoked and whose user is not banned
\* validates at every clock value before its exp and fails with
\* CredentialsException at every clock value from exp on; whatever else holds
\* of a token, from exp on it fails with CredentialsException.
C7_ExpiryBoundary ==
    \A tok \in issued :
        /\ (tok \notin logged_out /\ ~users[tok.sub].is_banned) =>
              login_required(tok, now, users, revoked)
                 = IF now < tok.exp THEN OK ELSE CREDENTIALS
        /\ now >= tok.exp =>
              login_required(tok, now, users, revoked) = CREDENTIALS

\* C7 witness: the clock stands exactly at the exp of a token that is
\* neither revoked nor its user banned.
C7_Witness ==
    \E tok \in issued :
        /\ now = tok.exp
        /\ tok \notin logged_out
        /\ ~users[tok.sub].is_banned

\* C8: when request_password_reset has committed its identifier and the mail
\* is not delivered, it fails with the generic APIException and writes
\* nothing: the identifier, if it is still the user's pending one, stays
\* pending, and a reset_password with it finds the user.
C8_UndeliveredStaysPending ==
    \A w \in At("request_send") :
        LET u == loc[w].user
            r == request_password_reset_send(users, u, FALSE)
        IN  /\ r.status = API_ERROR
            /\ r.table = users
            /\ users[u].reset_uuid = loc[w].ident =>
                  /\ reset_password_check(r.table, loc[w].ident) = OK
                  /\ user_by_reset_uuid(r.table, loc[w].ident) = u

\* C8 witness: a request has committed its identifier, which is the user's
\* pending one, and stands before the delivery; nothing was redeemed.
C8_Witness ==
    \E w \in At("request_send") :
        /\ users[loc[w].user].reset_uuid = loc[w].ident
        /\ \A t \in Uuids : redeemed[t] = 0

\* C9 as claimed: the revocation store never holds two rows with one token
\* id, and no log_out ends in an error because the token id it revokes is
\* already in the store, whether the log_out calls on a token come in
\* sequence or are handled concurrently.
C9_Original ==
    /\ \A r1 \in revoked, r2 \in revoked :
          r1.revoked_uuid = r2.revoked_uuid => r1 = r2
    /\ integrity_errors = {}

\* C10 as claimed: of all reset_password calls presenting one identifier, in
\* any interleaving, at most one answers 200 (a call that has committed its
\* write has no failing path left and answers 200).
C10_Original ==
    \A t \in Uuids : redeemed[t] <= 1

\* ------------------------------------------------- claims C11 to C20

\* workers whose request_password_reset has committed its write for user u
\* and has not yet answered
Written(u) ==
    {w \in Workers : pc[w] = "request_send" /\ loc[w].user = u}

NothingRedeemed == \A t \in Uuids : redeemed[t] = 0

\* the identifiers by which reset_password finds user u in this state
Redeemable(u) == {t \in Uuids : user_by_reset_uuid(users, t) = u}

\* C11: when two request_password_reset calls for one user have both written
\* (and no reset_password has committed), the user holds the identifier
\* written last: reset_password with it succeeds and with the one written
\* first is NotFound; while the other call has not written yet and the first
\* one's identifier is the newest generated, that identifier is the one
\* redeemable; in every state at most one identifier is redeemable per user.
C11_LastWriteWins ==
    /\ \A u \in UserIds : Cardinality(Redeemable(u)) <= 1
    /\ \A u \in UserIds, w1 \in Workers, w2 \in Workers :
          (/\ NothingRedeemed
           /\ w1 \in Written(u)
           /\ w2 # w1)
          => IF w2 \in Written(u)
             THEN LET first == IF loc[w1].ident < loc[w2].ident
                               THEN loc[w1].ident ELSE loc[w2].ident
                      last  == IF loc[w1].ident < loc[w2].ident
                               THEN loc[w2].ident ELSE loc[w1].ident
                  IN  /\ first # last
                      /\ users[u].reset_uuid = last
                      /\ Redeemable(u) = {last}
                      /\ reset_password_check(users, first) = NOT_FOUND
             ELSE (/\ pc[w2] = "request_commit" /\ loc[w2].user = u
                   /\ loc[w1].ident = next_uuid - 1)
                  => Redeemable(u) = {loc[w1].ident}

\* C11 witness: both workers have written an identifier for the same user,
\* neither has answered yet and nothing was redeemed.
C11_Witness ==
    \E u \in UserIds :
        /\ Written(u) = Workers
        /\ NothingRedeemed
        /\ users[u].reset_uuid = next_uuid - 1

\* C12: reset_password writes the new hash and the cleared identifier in one
\* commit, and log_out writes its whole row in one commit: no step of any
\* worker replaces a password hash without leaving the identifier null,
\* none clears an identifier without being the commit of a reset_password
\* that also stores the hash of its new password, and every step that
\* changes the revocation store adds exactly one complete row.  (The token
\* of a reset_password is created after its commit; that step writes
\* neither table.)
C12_AtomicWrites ==
    [][/\ \A u \in UserIds :
            /\ users'[u].password # users[u].password
                  => users'[u].reset_uuid = NULL
            /\ (users[u].reset_uuid # NULL /\ users'[u].reset_uuid = NULL)
                  => \E w \in Workers :
                        /\ pc[w] = "reset_commit" /\ pc'[w] = "reset_token"
                        /\ loc[w].user = u
                        /\ users'[u].password
                              = generate_password_hash(loc[w].password)
       /\ \A w \in Workers :
             (pc[w] = "reset_token" /\ pc'[w] = "idle")
                => users' = users /\ revoked' = revoked
       /\ revoked' # revoked
             => \E w \in Workers :
                   /\ pc[w] = "log_out_commit" /\ pc'[w] = "idle"
                   /\ revoked' = revoked \cup
                         {[revoked_uuid |-> loc[w].token.jti,
                           user_id      |-> loc[w].token.sub,
                           expires      |-> loc[w].token.exp]}]_vars

\* C12 witness: a reset_password has committed (its identifier is counted
\* as redeemed, the hash is the new password's, no identifier is pending)
\* while the other worker is in the middle of a handler, and a log_out row
\* is in the store.
C12_Witness ==
    \E u \in UserIds, t \in Uuids, w \in Workers :
        /\ redeemed[t] = 1
        /\ cred[u] # InitialPassword[u]
        /\ users[u].password = generate_password_hash(cred[u])
        /\ users[u].reset_uuid = NULL
        /\ pc[w] # "idle"
        /\ revoked # {}

\* C13: validation reports the first failing check in the order signature,
\* expiry, revocation, subject, ban: a presented token that is tampered with,
\* expired or logged out fails with CredentialsException even when its user
\* is banned, and BannedUserException is the answer exactly for a well-formed,
\* unexpired, not logged-out token of an existing, banned user.
C13_FirstFailingCheck ==
    \A tok \in Presentable :
        LET r == login_required(tok, now, users, revoked)
            early == ~tok.sig \/ now >= tok.exp
                        \/ [tok EXCEPT !.sig = TRUE] \in logged_out
        IN  /\ early => r = CREDENTIALS
            /\ r = FORBIDDEN <=>
                  (~early /\ tok.sub \in UserIds /\ users[tok.sub].is_banned)
            /\ r = OK <=>
                  (~early /\ tok.sub \in UserIds /\ ~users[tok.sub].is_banned)

\* C13 witness: a banned user has a logged-out token that is not yet expired
\* and another token that is neither logged out nor expired.
C13_Witness ==
    \E t1 \in logged_out, t2 \in issued :
        /\ t1.sub = t2.sub /\ users[t1.sub].is_banned
        /\ now < t1.exp
        /\ Live(t2)

\* the revocation row that belongs to a token
RowOf(tok) == [revoked_uuid |-> tok.jti, user_id |-> tok.sub, expires |-> tok.exp]

\* C14: every row of the revocation store carries the token id of a token
\* that was presented to log_out, the id of the user it resolved to and an
\* expiry equal to the token's own exp claim; the row a log_out is about to
\* commit is that row, whatever the clock is at the commit.
C14_RevocationRow ==
    /\ revoked = {RowOf(tok) : tok \in logged_out}
    /\ \A w \in At("log_out_commit") :
          LET tok == loc[w].token
              row == revoked_token(tok, loc[w].user)
              ins == insert_revoked_token(revoked, row)
          IN  /\ tok \in issued
              /\ row = RowOf(tok)
              /\ ins.ok => ins.table = revoked \cup {RowOf(tok)}

\* C14 witness: rows of two users are stored, one of them for a token that
\* has expired since.
C14_Witness ==
    \E r1, r2 \in revoked :
        /\ r1.user_id # r2.user_id
        /\ r1.expires <= now

\* no user record holds the identifier
Unheld(t) == \A u \in UserIds : users[u].reset_uuid # t

\* C15: an identifier that was never issued or was already consumed is held
\* by no user, no identifier is held by two users, and reset_password with
\* an identifier no user holds (never issued, consumed or overwritten) finds
\* no user and answers NotFoundException.  A reset_password that raises it
\* presented an identifier no user held, and neither the step that raises
\* nor the step that answers changes a user record or creates a token; a
\* reset_password reaches its commit only with an identifier that its query
\* found on a user.
C15_UnknownIdentifier ==
    /\ [](\A t \in Uuids :
            /\ (t >= next_uuid \/ redeemed[t] > 0) => Unheld(t)
            /\ \A u1, u2 \in UserIds :
                  (users[u1].reset_uuid = t /\ users[u2].reset_uuid = t)
                     => u1 = u2
            /\ Unheld(t) =>
                  /\ user_by_reset_uuid(users, t) = NoUser
                  /\ reset_password_check(users, t) = NOT_FOUND)
    /\ [][\A w \in Workers :
            /\ (/\ pc[w] = "idle" /\ pc'[w] = "raise"
                /\ loc'[w].op = "reset_password") =>
                  /\ loc'[w].status = NOT_FOUND
                  /\ Unheld(loc'[w].ident)
                  /\ users' = users
                  /\ issued' = issued /\ next_jti' = next_jti
            /\ (/\ pc[w] = "raise" /\ pc'[w] = "idle"
                /\ loc[w].op = "reset_password") =>
                  /\ users' = users
                  /\ issued' = issued /\ next_jti' = next_jti
            /\ (pc[w] = "idle" /\ pc'[w] = "reset_commit") =>
                  /\ users[loc'[w].user].reset_uuid = loc'[w].ident
                  /\ users' = users
                  /\ issued' = issued /\ next_jti' = next_jti]_vars

\* C15 witness: one identifier was consumed, an older one was overwritten
\* without being consumed and one was never issued; a reset_password that
\* presented the consumed one has raised NotFoundException and is about to
\* answer.
C15_Witness ==
    \E t1, t2, t3 \in Uuids, w \in At("raise") :
        /\ redeemed[t1] > 0 /\ Unheld(t1)
        /\ t2 < next_uuid /\ redeemed[t2] = 0 /\ Unheld(t2)
        /\ t3 >= next_uuid
        /\ loc[w].op = "reset_password" /\ loc[w].ident = t1

\* C16 as claimed: while a user record holds an identifier, reset_password
\* with it finds that user at every clock value, and a step of any operation
\* leaves it in place unless the step is a request_password_reset of the
\* same user, which stores the next identifier over it, or the commit of a
\* reset_password that presented it.
C16_Original ==
    [][\A u \in UserIds :
          LET t == users[u].reset_uuid
          IN  t # NULL =>
                /\ user_by_reset_uuid(users, t) = u
                /\ users'[u].reset_uuid # t =>
                      \/ /\ users'[u].reset_uuid = next_uuid
                         /\ next_uuid' = next_uuid + 1
                      \/ /\ users'[u].reset_uuid = NULL
                         /\ redeemed'[t] = redeemed[t] + 1]_vars

\* C17: for one submitted password, log_in with an address that matches no
\* account and log_in with the address of an account whose password is
\* another one give the same response, CredentialsException and no token,
\* while request_password_reset answers NotFoundException for the first
\* address and something else for the second.
C17_LogInHidesExistence ==
    \A e1, e2 \in EmailInputs, p \in Passwords, u \in UserIds :
        (NoAccount(e1) /\ Matches(e2, u) /\ p # cred[u]) =>
            /\ log_in_response(users, e1, p, next_jti, now)
                  = log_in_response(users, e2, p, next_jti, now)
            /\ log_in_response(users, e1, p, next_jti, now)
                  = [status |-> CREDENTIALS, access_token |-> NoToken]
            /\ request_password_reset_check(users, e1) = NOT_FOUND
            /\ request_password_reset_check(users, e2) # NOT_FOUND

\* C17 witness: an account whose password was replaced by a reset is asked
\* for with its first password, next to an address that matches no account;
\* another account is banned.
C17_Witness ==
    \E e1, e2 \in EmailInputs, u, v \in UserIds :
        /\ NoAccount(e1) /\ Matches(e2, u)
        /\ cred[u] # InitialPassword[u]
        /\ log_in_status(users, e2, InitialPassword[u]) = CREDENTIALS
        /\ log_in_status(users, e1, InitialPassword[u]) = CREDENTIALS
        /\ users[v].is_banned

\* C18: reset_password finds a banned user by a pending identifier like any
\* other user, and its commit for a banned user stores the hash of the new
\* password, clears the identifier and leaves the ban flag and the other
\* records; the token it then creates for a user who is banned is a signed,
\* unexpired token of that user and, like every unexpired, not logged-out
\* token of a banned user, fails validation with BannedUserException.
C18_ResetIgnoresBan ==
    /\ \A u \in UserIds :
          (users[u].is_banned /\ users[u].reset_uuid # NULL) =>
              /\ reset_password_check(users, users[u].reset_uuid) = OK
              /\ user_by_reset_uuid(users, users[u].reset_uuid) = u
    /\ \A w \in At("reset_commit") :
          LET u     == loc[w].user
              after == reset_password_write(users, u, loc[w].password)
          IN  users[u].is_banned =>
                /\ after = [users EXCEPT
                              ![u].password
                                 = generate_password_hash(loc[w].password),
                              ![u].reset_uuid = NULL]
                /\ after[u].is_banned
    /\ \A w \in At("reset_token") :
          LET u   == loc[w].user
              tok == access_token_for_user(u, next_jti, now)
          IN  users[u].is_banned =>
                /\ tok.sub = u /\ tok.sig /\ now < tok.exp
                /\ login_required(tok, now, users, revoked) = FORBIDDEN
    /\ \A tok \in issued :
          (Live(tok) /\ users[tok.sub].is_banned) =>
              login_required(tok, now, users, revoked) = FORBIDDEN

\* C18 witness: a banned user holds a pending identifier, and another banned
\* user has redeemed one and holds an unexpired token.
C18_Witness ==
    \E u, v \in UserIds, tok \in issued :
        /\ u # v
        /\ users[u].is_banned /\ users[u].reset_uuid # NULL
        /\ users[v].is_banned /\ cred[v] # InitialPassword[v]
        /\ tok.sub = v /\ Live(tok)

\* C19: the step in which a reset_password commits and the step in which it
\* creates its token leave the revocation store as it was, and every minted
\* token that passed validation before the step passes it after the step.
C19_ResetKeepsSessions ==
    [][(\/ redeemed' # redeemed
        \/ \E w \in Workers : pc[w] = "reset_token" /\ pc'[w] = "idle") =>
          /\ revoked' = revoked
          /\ logged_out' = logged_out
          /\ issued \subseteq issued'
          /\ \A tok \in issued :
                login_required(tok, now, users, revoked) = OK =>
                    login_required(tok, now', users', revoked') = OK]_vars

\* C19 witness: a user has redeemed two identifiers in turn, and the token
\* returned by the first reset is still unexpired and not logged out next to
\* the token of the second.
C19_Witness ==
    \E tok1, tok2 \in issued :
        /\ tok1.sub = tok2.sub /\ tok1.jti < tok2.jti
        /\ Live(tok1) /\ Live(tok2)
        /\ ~users[tok1.sub].is_banned
        /\ login_required(tok1, now, users, revoked) = OK
        /\ redeemed[1] = 1 /\ redeemed[2] = 1

\* what log_in answers for the accounts of table us whose passwords are c
LogInOutcomes(us, c, jti, t) ==
    \A e \in EmailInputs, p \in Passwords :
        LET r == log_in_response(us, e, p, jti, t)
            banned_match == \E u \in UserIds :
                               /\ us[u].email = lower(e)
                               /\ us[u].is_banned
                               /\ p = c[u]
        IN  /\ r.status = FORBIDDEN <=> banned_match
            /\ \A u \in UserIds :
                  (us[u].email = lower(e) /\ us[u].is_banned /\ p # c[u]) =>
                      r.status = CREDENTIALS
            /\ r.status # OK => r.access_token = NoToken
            /\ r.status = OK => ~us[r.access_token.sub].is_banned

\* the steps of a log_in up to the creation of the token: the query goes on
\* to the token only for an account it read as not banned and whose password
\* was submitted, it raises CredentialsException or BannedUserException
\* otherwise, the latter only when some account is banned; the query, the
\* raise and the answer change no user record, no row of the revocation
\* store and create no token
LogInChecks(w) ==
    /\ (pc[w] = "idle" /\ pc'[w] = "log_in_token") =>
          /\ ~users[loc'[w].user].is_banned
          /\ \E e \in EmailInputs :
                /\ Matches(e, loc'[w].user)
                /\ log_in_status(users, e, cred[loc'[w].user]) = OK
          /\ users' = users /\ revoked' = revoked /\ issued' = issued
    /\ (pc[w] = "idle" /\ pc'[w] = "raise" /\ loc'[w].op = "log_in") =>
          /\ loc'[w].status \in {CREDENTIALS, FORBIDDEN}
          /\ \E e \in EmailInputs, p \in Passwords :
                log_in_status(users, e, p) = loc'[w].status
          /\ loc'[w].status = FORBIDDEN => \E u \in UserIds : users[u].is_banned
          /\ users' = users /\ revoked' = revoked /\ issued' = issued
    /\ (pc[w] = "raise" /\ pc'[w] = "idle" /\ loc[w].op = "log_in") =>
          users' = users /\ revoked' = revoked /\ issued' = issued

\* the step in which log_in creates its token changes no user record and no
\* row of the revocation store, and adds the one token to those minted
LogInMints(w) ==
    /\ users' = users /\ revoked' = revoked
    /\ issued' = issued \cup {Minted(w)}
    /\ Minted(w) \notin issued
    /\ Minted(w).sub = loc[w].user

\* C20 as claimed: log_in looks at the password before the ban: for a banned
\* user a wrong password gives CredentialsException and BannedUserException
\* is the answer exactly when address and password match a banned account;
\* no step of a log_in, failing or succeeding, changes a user record or the
\* revocation store; and the user for whom log_in creates a token is not
\* banned when the token is created.
C20_Original ==
    /\ []LogInOutcomes(users, cred, next_jti, now)
    /\ [][\A w \in Workers :
            /\ LogInChecks(w)
            /\ (pc[w] = "log_in_token" /\ pc'[w] = "idle") =>
                  /\ LogInMints(w)
                  /\ ~users[loc[w].user].is_banned]_vars

\* C20 amended: log_in looks at the password before the ban: for a banned
\* user a wrong password gives CredentialsException and BannedUserException
\* is the answer exactly when address and password match a banned account;
\* no step of a log_in, failing or succeeding, changes a user record or the
\* revocation store; and the user for whom log_in creates a token was not
\* banned when log_in read the record: a ban committed between that read and
\* the creation of the token does not stop the token, which then fails
\* validation with BannedUserException.
C20_CredentialsBeforeBan ==
    /\ []LogInOutcomes(users, cred, next_jti, now)
    /\ [][\A w \in Workers :
            /\ LogInChecks(w)
            /\ (pc[w] = "log_in_token" /\ pc'[w] = "idle") =>
                  /\ LogInMints(w)
                  /\ users[loc[w].user].is_banned =>
                        login_required(Minted(w), now', users', revoked')
                           = FORBIDDEN]_vars

\* C20 witness: a log_in has read its user as not banned and stands before
\* the creation of the token while the user is banned by now, and a log_in
\* of a banned user with the right password has raised BannedUserException
\* and is about to answer.
C20_Witness ==
    \E w1 \in At("log_in_token"), w2 \in At("raise") :
        /\ users[loc[w1].user].is_banned
        /\ loc[w2].op = "log_in"
        /\ loc[w2].status = FORBIDDEN
====
